---- MODULE Spec2Model ----
(***************************************************************************)
(* Model of app/app.py: the arithmetic-modernization rule.  A unit's code   *)
(* is scanned with ARITH_RE for obsolete ADD / SUBTRACT / MULTIPLY /        *)
(* DIVIDE statements; every match becomes a Finding.                        *)
(*                                                                          *)
(* Python strings are sequences of one-character strings.  Offsets are      *)
(* 0-based as in Python: offset i denotes src[i + 1] of the TLA+ sequence.  *)
(* Optional[T] is <<>> for None and <<x>> for the value x.                  *)
(***************************************************************************)
EXTENDS Integers, Sequences, FiniteSets, TLC

VARIABLES
  heap,      \* the Unit objects, by reference: scan_unit's argument and the Unit it builds
  request,   \* the body of the request: references of the units posted
  response,  \* what the endpoint returned
  pc,        \* "ready" before a handler runs, then the handler that answered
  round,     \* how many times an answered unit was posted again
  parts      \* per posted unit, the segments its code was written from

vars == <<heap, request, response, pc, round, parts>>

(***************************************************************************)
(* Bounds of the model.                                                     *)
(***************************************************************************)
MaxParts == 3
MaxBatch == 3
MaxRounds == 2

(***************************************************************************)
(* Characters.  The texts of the model are written in ASCII letters,        *)
(* digits, "_", ".", "=", "+", white space and U+0130; the character        *)
(* classes below are those of Python restricted to these characters.        *)
(***************************************************************************)
NL == "\n"
TAB == "\t"
\* U+0130, LATIN CAPITAL LETTER I WITH DOT ABOVE
IDOT == "<U+0130>"

LowerCase ==
  <<"a","b","c","d","e","f","g","h","i","j","k","l","m",
    "n","o","p","q","r","s","t","u","v","w","x","y","z">>
UpperCase ==
  <<"A","B","C","D","E","F","G","H","I","J","K","L","M",
    "N","O","P","Q","R","S","T","U","V","W","X","Y","Z">>
Digits == {"0","1","2","3","4","5","6","7","8","9"}
Letters == {LowerCase[i] : i \in 1..26} \cup {UpperCase[i] : i \in 1..26} \cup {IDOT}

\* Optional values
None == <<>>
Some(x) == <<x>>

\* F applied to the value of v, v evaluated once (a local variable)
let(v, F(_)) == CHOOSE r \in {F(x) : x \in {v}} : TRUE

\* \s of a Unicode pattern
IsSpace(c) == c \in {" ", NL, TAB, "\r", "\f"}

\* \w of a Unicode pattern: letters, digits, underscore
IsWord(c) == c \in Letters \cup Digits \cup {"_"}

\* str.upper() on one character: U+0130 is already upper case
UpperChar ==
  [c \in Letters |->
     IF \E i \in 1..26 : LowerCase[i] = c
     THEN UpperCase[CHOOSE i \in 1..26 : LowerCase[i] = c]
     ELSE c]
upper_char(c) == IF c \in Letters THEN UpperChar[c] ELSE c

\* the simple lower-case mapping re.IGNORECASE compares with:
\* U+0130 folds to "i"
FoldChar ==
  [c \in Letters |->
     IF c = IDOT THEN "i"
     ELSE IF \E i \in 1..26 : UpperCase[i] = c
     THEN LowerCase[CHOOSE i \in 1..26 : UpperCase[i] = c]
     ELSE c]
fold_char(c) == IF c \in Letters THEN FoldChar[c] ELSE c

\* a literal character of the pattern against a character of the text,
\* under re.IGNORECASE
lit_eq(p, c) == fold_char(p) = fold_char(c)

(***************************************************************************)
(* String helpers (Python str methods used by the code).                    *)
(***************************************************************************)
\* src[a:b] for 0 <= a, b <= len(src)
Slice(s, a, b) == IF b <= a THEN <<>> ELSE SubSeq(s, a + 1, b)

\* src[:start].count("\n")
count_nl(s, start) == Cardinality({i \in 1..start : s[i] = NL})

\* src.rfind("\n", 0, start)
rfind_nl(s, start) ==
  LET hits == {i \in 0..(start - 1) : s[i + 1] = NL}
  IN  IF hits = {} THEN -1 ELSE CHOOSE i \in hits : \A j \in hits : j <= i

\* src.find("\n", start)
find_nl(s, start) ==
  LET hits == {i \in start..(Len(s) - 1) : s[i + 1] = NL}
  IN  IF hits = {} THEN -1 ELSE CHOOSE i \in hits : \A j \in hits : i <= j

RECURSIVE replace_nl(_)
\* s.replace("\n", "\\n")
replace_nl(s) ==
  IF s = <<>> THEN <<>>
  ELSE (IF Head(s) = NL THEN <<"\\", "n">> ELSE <<Head(s)>>) \o replace_nl(Tail(s))

\* s.upper()
upper(s) == [i \in 1..Len(s) |-> upper_char(s[i])]

\* s.startswith(prefix)
startswith(s, prefix) ==
  /\ Len(s) >= Len(prefix)
  /\ SubSeq(s, 1, Len(prefix)) = prefix

\* s.strip()
strip(s) ==
  LET keep == {i \in 1..Len(s) : ~IsSpace(s[i])}
  IN  IF keep = {} THEN <<>>
      ELSE SubSeq(s, CHOOSE i \in keep : \A j \in keep : i <= j,
                     CHOOSE i \in keep : \A j \in keep : j <= i)

(***************************************************************************)
(* ARITH_RE.  A sub-match returns the offset after it, or -1.  What follows *)
(* each \s* or \s+ is never white space and what follows each \w+ is never  *)
(* a word character, so the greedy run is the only way to match and         *)
(* backtracking into a run cannot succeed.                                  *)
(***************************************************************************)
RECURSIVE run_end(_, _, _)
\* offset after the maximal run from offset i of characters of a class
run_end(s, i, space) ==
  IF i < Len(s) /\ (IF space THEN IsSpace(s[i + 1]) ELSE IsWord(s[i + 1]))
  THEN run_end(s, i + 1, space)
  ELSE i

\* \s*
re_spaces0(s, i) == run_end(s, i, TRUE)

\* a run that must not be empty; i < 0 when what precedes did not match
run1(s, i, space) ==
  IF i < 0 THEN -1
  ELSE let(run_end(s, i, space), LAMBDA e : IF e > i THEN e ELSE -1)

\* \s+
re_spaces1(s, i) == run1(s, i, TRUE)

\* \w+
re_word(s, i) == run1(s, i, FALSE)

\* a literal word of the pattern, case-insensitively
re_literal(s, i, lit) ==
  IF i < 0 \/ i + Len(lit) > Len(s) THEN -1
  ELSE IF \A k \in 1..Len(lit) : lit_eq(lit[k], s[i + k]) THEN i + Len(lit)
  ELSE -1

KW_ADD == <<"A","D","D">>
KW_SUBTRACT == <<"S","U","B","T","R","A","C","T">>
KW_MULTIPLY == <<"M","U","L","T","I","P","L","Y">>
KW_DIVIDE == <<"D","I","V","I","D","E">>
KW_TO == <<"T","O">>
KW_FROM == <<"F","R","O","M">>
KW_BY == <<"B","Y">>

\* the four alternatives of (?P<stmt> ...), in pattern order:
\* keyword, connective, names of the value and target groups
Alternatives ==
  << [kw |-> KW_ADD,      conn |-> KW_TO,   val |-> "add_val", target |-> "add_target"],
     [kw |-> KW_SUBTRACT, conn |-> KW_FROM, val |-> "sub_val", target |-> "sub_target"],
     [kw |-> KW_MULTIPLY, conn |-> KW_BY,   val |-> "mul_val", target |-> "mul_target"],
     [kw |-> KW_DIVIDE,   conn |-> KW_BY,   val |-> "div_val", target |-> "div_target"] >>

GroupNames ==
  {"stmt", "add_val", "add_target", "sub_val", "sub_target",
   "mul_val", "mul_target", "div_val", "div_target"}

NoMatch == [ok |-> FALSE]

\* KW\s+(?P<val>\w+)\s+CONN\s+(?P<target>\w+) from offset i
re_alternative(s, i, alt) ==
  let(re_literal(s, i, alt.kw), LAMBDA a :
  let(re_spaces1(s, a), LAMBDA b :
  let(re_word(s, b), LAMBDA c :
  let(re_spaces1(s, c), LAMBDA d :
  let(re_literal(s, d, alt.conn), LAMBDA e :
  let(re_spaces1(s, e), LAMBDA f :
  let(re_word(s, f), LAMBDA g :
    IF g < 0 THEN NoMatch
    ELSE [ok |-> TRUE, end |-> g,
          groups |-> [n \in GroupNames |->
                        IF n = "stmt" THEN Some(Slice(s, i, g))
                        ELSE IF n = alt.val THEN Some(Slice(s, b, c))
                        ELSE IF n = alt.target THEN Some(Slice(s, f, g))
                        ELSE None]])))))))

\* ^ under re.MULTILINE
re_bol(s, p) == p = 0 \/ s[p] = NL

\* the whole pattern tried at offset p: ^\s*(?P<stmt>...)\.
re_match_at(s, p) ==
  IF ~re_bol(s, p) THEN NoMatch
  ELSE
    let(re_spaces0(s, p), LAMBDA i :
    let([k \in 1..4 |-> re_alternative(s, i, Alternatives[k])], LAMBDA tries :
    let({k \in 1..4 :
           /\ tries[k].ok
           /\ tries[k].end < Len(s)
           /\ s[tries[k].end + 1] = "."}, LAMBDA good :
      IF good = {} THEN NoMatch
      ELSE let(CHOOSE x \in good : \A y \in good : x <= y, LAMBDA k :
             [ok |-> TRUE, start |-> p, end |-> tries[k].end + 1,
              groups |-> tries[k].groups]))))

\* the first offset from pos on at which ^ matches, Len(s) + 1 if none:
\* the search fails at once at every offset before it
next_bol(s, pos) ==
  let({p \in pos..Len(s) : re_bol(s, p)}, LAMBDA at :
    IF at = {} THEN Len(s) + 1 ELSE CHOOSE p \in at : \A q \in at : p <= q)

RECURSIVE finditer_from(_, _)
\* ARITH_RE.finditer(src): leftmost matches, each search resuming at the
\* end of the previous match (no match of this pattern is empty)
finditer_from(s, from) ==
  let(next_bol(s, from), LAMBDA pos :
    IF pos > Len(s) THEN <<>>
    ELSE let(re_match_at(s, pos), LAMBDA m :
           IF m.ok THEN <<m>> \o finditer_from(s, m.end)
           ELSE finditer_from(s, pos + 1)))

finditer(src) == let(src, LAMBDA s : finditer_from(s, 0))

(***************************************************************************)
(* Text constants of make_finding.                                          *)
(***************************************************************************)
TXT_Replace == <<"R","e","p","l","a","c","e"," ","'">>
TXT_with == <<"'"," ","w","i","t","h"," ","'">>
TXT_close == <<"'",".">>
TXT_Obsolete == <<"O","b","s","o","l","e","t","e">>
TXT_Usage == <<"U","s","a","g","e">>
TXT_ObsoleteQ == <<"O","b","s","o","l","e","t","e"," ","'">>
TXT_detected == <<"'"," ","s","t","a","t","e","m","e","n","t"," ","d","e","t","e","c","t","e","d",".">>
TXT_None == <<"N","o","n","e">>

\* {'ADD':'+=', 'SUBTRACT':'-=', 'MULTIPLY':'*=', 'DIVIDE':'/='}[stmt_type]
assign_op(stmt_type) ==
  CASE stmt_type = KW_ADD -> <<"+","=">>
    [] stmt_type = KW_SUBTRACT -> <<"-","=">>
    [] stmt_type = KW_MULTIPLY -> <<"*","=">>
    [] stmt_type = KW_DIVIDE -> <<"/","=">>

\* an Optional[str] formatted into an f-string
fmt(opt) == IF opt = None THEN TXT_None ELSE opt[1]

(***************************************************************************)
(* Helper                                                                   *)
(***************************************************************************)
extract_exact_line(src, start) ==
  LET r == rfind_nl(src, start)
      line_start == IF r = -1 THEN 0 ELSE r + 1
      f == find_nl(src, start)
      line_end == IF f = -1 THEN Len(src) ELSE f
  IN  Slice(src, line_start, line_end)

\* make_finding with the operands of the suggestion exchanged
make_finding_swapped(unit, src, start, end, stmt_type, value, target, original_stmt) ==
  LET abs_start == unit.start_line + count_nl(src, start)
      snippet == replace_nl(extract_exact_line(src, start))
      suggestion == TXT_Replace \o original_stmt \o TXT_with \o fmt(value)
                      \o <<" ">> \o assign_op(stmt_type) \o <<" ">> \o fmt(target)
                      \o TXT_close
  IN  [prog_name |-> unit.pgm_name,
       incl_name |-> unit.inc_name,
       types |-> unit.type,
       blockname |-> unit.name,
       starting_line |-> abs_start,
       ending_line |-> abs_start,
       issues_type |-> TXT_Obsolete \o stmt_type \o TXT_Usage,
       severity |-> "error",
       message |-> TXT_ObsoleteQ \o stmt_type \o TXT_detected,
       suggestion |-> suggestion,
       snippet |-> snippet]

make_finding(unit, src, start, end, stmt_type, value, target, original_stmt) ==
  LET abs_start == unit.start_line + count_nl(src, start)
      abs_end == abs_start
      snippet == replace_nl(extract_exact_line(src, start))
      suggestion == TXT_Replace \o original_stmt \o TXT_with \o fmt(target)
                      \o <<" ">> \o assign_op(stmt_type) \o <<" ">> \o fmt(value)
                      \o TXT_close
  IN  [prog_name |-> unit.pgm_name,
       incl_name |-> unit.inc_name,
       types |-> unit.type,
       blockname |-> unit.name,
       starting_line |-> abs_start,
       ending_line |-> abs_end,
       issues_type |-> TXT_Obsolete \o stmt_type \o TXT_Usage,
       severity |-> "error",
       message |-> TXT_ObsoleteQ \o stmt_type \o TXT_detected,
       suggestion |-> suggestion,
       snippet |-> snippet]

(***************************************************************************)
(* Scanner                                                                  *)
(***************************************************************************)
\* the keyword dispatch of the loop body: the kind and the names of the
\* groups read, or "skip" for the else branch
dispatch(stmt) ==
  let(upper(stmt), LAMBDA up :
    IF startswith(up, KW_ADD)
      THEN [stmt_type |-> KW_ADD, val |-> "add_val", target |-> "add_target"]
    ELSE IF startswith(up, KW_SUBTRACT)
      THEN [stmt_type |-> KW_SUBTRACT, val |-> "sub_val", target |-> "sub_target"]
    ELSE IF startswith(up, KW_MULTIPLY)
      THEN [stmt_type |-> KW_MULTIPLY, val |-> "mul_val", target |-> "mul_target"]
    ELSE IF startswith(up, KW_DIVIDE)
      THEN [stmt_type |-> KW_DIVIDE, val |-> "div_val", target |-> "div_target"]
    ELSE [stmt_type |-> <<>>, val |-> "skip", target |-> "skip"])

\* one iteration of the loop: the findings appended for the match m
scan_match(unit, src, m) ==
  let(strip(m.groups["stmt"][1]), LAMBDA stmt :
  let(dispatch(stmt), LAMBDA d :
    IF d.val = "skip" THEN <<>>
    ELSE << make_finding(unit, src, m.start, m.end, d.stmt_type,
                         m.groups[d.val], m.groups[d.target], stmt) >>))

RECURSIVE scan_loop_reversed(_, _, _)
\* scan_loop inserting each finding at the front of the list
scan_loop_reversed(unit, src, ms) ==
  IF ms = <<>> THEN <<>>
  ELSE scan_loop_reversed(unit, src, Tail(ms))
         \o let(Head(ms), LAMBDA m : scan_match(unit, src, m))

RECURSIVE scan_loop(_, _, _)
\* for m in ARITH_RE.finditer(src): ...
scan_loop(unit, src, ms) ==
  IF ms = <<>> THEN <<>>
  ELSE let(Head(ms), LAMBDA m : scan_match(unit, src, m))
         \o scan_loop(unit, src, Tail(ms))

\* unit.code or ""
code_or_empty(unit) == IF unit.code = None THEN <<>> ELSE unit.code[1]

\* the findings list built by the loop of scan_unit
scan_findings(unit) ==
  let(code_or_empty(unit), LAMBDA src :
  let(finditer(src), LAMBDA ms : scan_loop(unit, src, ms)))

\* scan_unit extending the findings the unit came with
scan_unit_accumulate(h, ref) ==
  let(h[ref], LAMBDA unit :
  let((IF unit.findings = None THEN <<>> ELSE unit.findings[1])
        \o scan_findings(unit), LAMBDA findings :
  let([unit EXCEPT !.findings = IF findings # <<>> THEN Some(findings) ELSE None],
      LAMBDA out : [heap |-> Append(h, out), ref |-> Len(h) + 1])))

\* scan_unit attaching the findings to its argument as well
scan_unit_inplace(h, ref) ==
  let(h[ref], LAMBDA unit :
  let(scan_findings(unit), LAMBDA findings :
  let([unit EXCEPT !.findings = IF findings # <<>> THEN Some(findings) ELSE None],
      LAMBDA out : [heap |-> Append([h EXCEPT ![ref] = out], out), ref |-> Len(h) + 1])))

\* out = Unit(**unit.model_dump()); out.findings = findings if findings else None
\* on the heap h: a new object is allocated, the argument is left alone
scan_unit(h, ref) ==
  let(h[ref], LAMBDA unit :
  let(scan_findings(unit), LAMBDA findings :
  let([unit EXCEPT !.findings = IF findings # <<>> THEN Some(findings) ELSE None],
      LAMBDA out : [heap |-> Append(h, out), ref |-> Len(h) + 1])))

(***************************************************************************)
(* Models: Unit.  The inputs are units whose code is the concatenation of   *)
(* at most MaxParts segments; `parts` records, for each unit of the         *)
(* request, the segments its code was written from.                         *)
(***************************************************************************)
\* a statement as written in the source text, with what it says
Stmt(kind, keyword, gap, value, connective, target) ==
  [class |-> "stmt", kind |-> kind, value |-> value, target |-> target,
   body |-> keyword \o gap \o value \o <<" ">> \o connective \o <<" ">> \o target,
   text |-> keyword \o gap \o value \o <<" ">> \o connective \o <<" ">> \o target \o <<".">>]

Other(class, text) ==
  [class |-> class, kind |-> <<>>, value |-> <<>>, target |-> <<>>,
   body |-> <<>>, text |-> text]

Segments ==
  << Stmt(KW_ADD, KW_ADD, <<" ">>, <<"1">>, KW_TO, <<"X">>),
     Stmt(KW_ADD, <<"a","d","d">>, <<" ">>, <<"v","_","2">>, <<"t","o">>, <<"y">>),
     Stmt(KW_SUBTRACT, KW_SUBTRACT, <<" ">>, <<"5">>, KW_FROM, <<"X">>),
     Stmt(KW_MULTIPLY, <<"M","u","l","t","i","p","l","y">>, <<" ">>, <<"5">>,
          <<"B","y">>, <<"X">>),
     Stmt(KW_DIVIDE, KW_DIVIDE, <<" ">>, <<"5">>, KW_BY, <<"X">>),
     Stmt(KW_ADD, KW_ADD, <<NL, " ">>, <<"1">>, KW_TO, <<"X">>),
     [Stmt(KW_DIVIDE, <<"D",IDOT,"V",IDOT,"D","E">>, <<" ">>, <<"1">>, KW_BY, <<"X">>)
        EXCEPT !.class = "dotted"],
     Other("noperiod", <<"A","D","D"," ","1"," ","T","O"," ","X">>),
     Other("compute", <<"C","O","M","P","U","T","E"," ","X"," ","="," ","1"," ","+"," ","2",".">>),
     Other("ws", <<" ">>),
     Other("ws", <<NL>>) >>

NSegments == Len(Segments)

RECURSIVE seqs_upto(_, _)
\* the sequences over S of length at most n
seqs_upto(S, n) ==
  IF n = 0 THEN {<<>>}
  ELSE LET shorter == seqs_upto(S, n - 1)
       IN  shorter \cup {Append(q, x) : q \in {r \in shorter : Len(r) = n - 1}, x \in S}

RECURSIVE code_of(_)
\* the text of a sequence of segments
code_of(ps) == IF ps = <<>> THEN <<>> ELSE Segments[Head(ps)].text \o code_of(Tail(ps))

\* findings a caller may have left on a unit it submits
StaleFindings ==
  << [prog_name |-> "OLD", incl_name |-> "OLD", types |-> "OLD", blockname |-> "OLD",
      starting_line |-> 7, ending_line |-> 7, issues_type |-> TXT_Obsolete,
      severity |-> "error", message |-> TXT_Obsolete, suggestion |-> <<>>,
      snippet |-> <<>>] >>

\* class Unit(BaseModel)
Unit(code, start_line, findings) ==
  [pgm_name |-> "P1", inc_name |-> "I1", type |-> "FORM", name |-> "blk",
   class_implementation |-> None, start_line |-> start_line,
   end_line |-> start_line + (IF code = None THEN 0 ELSE count_nl(code[1], Len(code[1]))),
   code |-> code, findings |-> findings]

\* start_line: int, any integer; findings: Optional[List[Finding]]
UnitVariants ==
  { [start_line |-> 100, findings |-> None],
    [start_line |-> 0, findings |-> None],
    [start_line |-> -3, findings |-> Some(StaleFindings)] }

\* code: Optional[str]; a unit without segments has code "" or None
unit_codes(ps) == IF ps = <<>> THEN {None, Some(<<>>)} ELSE {Some(code_of(ps))}

NoResponse == [kind |-> "none"]

Init ==
  \E ps \in seqs_upto(1..NSegments, MaxParts), v \in UnitVariants :
    \E code \in unit_codes(ps) :
      /\ heap = << Unit(code, v.start_line, v.findings) >>
      /\ request = <<1>>
      /\ response = NoResponse
      /\ pc = "ready"
      /\ round = 0
      /\ parts = <<ps>>

\* the units of a batch: one segment each, or two statements on two lines
BatchParts == seqs_upto(1..NSegments, 1) \cup {<<1, 11, 3>>}

\* a batch of at most MaxBatch units; the k-th unit starts at line 100 * k
InitBatch ==
  \E pss \in seqs_upto(BatchParts, MaxBatch) :
    \E nulls \in SUBSET {k \in 1..Len(pss) : pss[k] = <<>>} :
      /\ heap = [k \in 1..Len(pss) |->
                   Unit(IF k \in nulls THEN None ELSE Some(code_of(pss[k])),
                        100 * k, None)]
      /\ request = [k \in 1..Len(pss) |-> k]
      /\ response = NoResponse
      /\ pc = "ready"
      /\ round = 0
      /\ parts = pss

(***************************************************************************)
(* Endpoints                                                                *)
(***************************************************************************)
\* truthiness of an Optional[List[Finding]]: `if res.findings`
truthy(findings) == findings # None /\ findings[1] # <<>>

RECURSIVE array_loop_unfiltered(_, _, _)
\* array_loop testing `res.findings is not None or res` : every unit is kept
array_loop_unfiltered(h, units, results) ==
  IF units = <<>> THEN [heap |-> h, results |-> results]
  ELSE let(scan_unit(h, Head(units)), LAMBDA r :
         array_loop_unfiltered(r.heap, Tail(units), Append(results, r.ref)))

RECURSIVE array_loop(_, _, _)
\* for u in units: res = scan_unit(u); if res.findings: results.append(res)
array_loop(h, units, results) ==
  IF units = <<>> THEN [heap |-> h, results |-> results]
  ELSE let(scan_unit(h, Head(units)), LAMBDA r :
       let(IF truthy(r.heap[r.ref].findings) THEN Append(results, r.ref) ELSE results,
           LAMBDA kept : array_loop(r.heap, Tail(units), kept)))

\* POST /remediate-array
arithmetic_array ==
  /\ pc = "ready"
  /\ \E r \in {array_loop(heap, request, <<>>)} :
       /\ heap' = r.heap
       /\ response' = [kind |-> "list", refs |-> r.results]
  /\ pc' = "array"
  /\ UNCHANGED <<request, round, parts>>

\* POST /remediate
arithmetic_single ==
  /\ pc = "ready"
  /\ Len(request) = 1
  /\ \E r \in {scan_unit(heap, request[1])} :
       /\ heap' = r.heap
       /\ response' = [kind |-> "unit", ref |-> r.ref]
  /\ pc' = "single"
  /\ UNCHANGED <<request, round, parts>>

\* GET /health
health ==
  /\ pc = "ready"
  /\ response' = [kind |-> "health",
                  body |-> [ok |-> TRUE, rule |-> "arithmetic-modernization",
                            version |-> "2.0"]]
  /\ pc' = "health"
  /\ UNCHANGED <<heap, request, round, parts>>

\* the caller posts the unit it was answered with to /remediate again
resubmit ==
  /\ pc = "single"
  /\ round < MaxRounds
  /\ request' = <<response.ref>>
  /\ response' = NoResponse
  /\ pc' = "ready"
  /\ round' = round + 1
  /\ UNCHANGED <<heap, parts>>

Next == arithmetic_single \/ resubmit \/ health

Spec == Init /\ [][Next]_vars

NextBatch == arithmetic_array \/ arithmetic_single

SpecBatch == InitBatch /\ [][NextBatch]_vars

(***************************************************************************)
(* What the segments of a unit say, for the properties below.               *)
(***************************************************************************)
\* the unit /remediate answered with, and its findings as a list
Result == heap[response.ref]
Found(u) == IF u.findings = None THEN <<>> ELSE u.findings[1]

\* the positions in ps of the well-formed statements, in source order
RECURSIVE stmt_positions(_, _)
stmt_positions(ps, i) ==
  IF i > Len(ps) THEN <<>>
  ELSE (IF Segments[ps[i]].class = "stmt" THEN <<i>> ELSE <<>>) \o stmt_positions(ps, i + 1)

\* the offset in the code of the first character of segment i
seg_offset(ps, i) == Len(code_of(SubSeq(ps, 1, i - 1)))

\* the physical lines of a text
RECURSIVE lines_of(_, _)
lines_of(s, cur) ==
  IF s = <<>> THEN <<cur>>
  ELSE IF Head(s) = NL THEN <<cur>> \o lines_of(Tail(s), <<>>)
  ELSE lines_of(Tail(s), Append(cur, Head(s)))

OperatorOf(kind) ==
  IF kind = KW_ADD THEN "+" ELSE IF kind = KW_SUBTRACT THEN "-"
  ELSE IF kind = KW_MULTIPLY THEN "*" ELSE "/"

\* the suggestion a statement calls for
expected_suggestion(seg) ==
  TXT_Replace \o seg.body \o TXT_with \o seg.target
    \o <<" ", OperatorOf(seg.kind), "=", " ">> \o seg.value \o TXT_close

RECURSIVE is_subseq(_, _)
\* a is b with some elements left out
is_subseq(a, b) ==
  IF a = <<>> THEN TRUE
  ELSE IF b = <<>> THEN FALSE
  ELSE IF Head(a) = Head(b) THEN is_subseq(Tail(a), Tail(b))
  ELSE is_subseq(a, Tail(b))

\* statements only, with white space between any two of them
well_formed_program(ps) ==
  /\ ps # <<>>
  /\ Segments[ps[1]].class = "stmt"
  /\ Segments[ps[Len(ps)]].class = "stmt"
  /\ \A i \in 1..Len(ps) : Segments[ps[i]].class \in {"stmt", "ws"}
  /\ \A i \in 1..(Len(ps) - 1) :
       ~(Segments[ps[i]].class = "stmt" /\ Segments[ps[i + 1]].class = "stmt")

\* every well-formed statement of the unit has its finding
all_detected == Len(Found(Result)) = Len(stmt_positions(parts[1], 1))

(***************************************************************************)
(* Properties                                                               *)
(***************************************************************************)
\* C1: a unit whose code is n >= 1 well-formed statements separated by white
\* space (spaces or line breaks) gets exactly n findings, the i-th for the
\* i-th statement.
C1_EveryStatementDetected ==
  (pc = "single" /\ well_formed_program(parts[1])) =>
    LET at == stmt_positions(parts[1], 1)
        found == Found(Result)
    IN  /\ Len(found) = Len(at)
        /\ \A i \in 1..Len(at) :
             found[i].suggestion = expected_suggestion(Segments[parts[1][at[i]]])

\* C2: a finding's starting_line is start_line plus the number of newlines
\* before the first character of the statement's keyword, and ending_line
\* equals starting_line, also when blank lines precede the statement.
C2_StartingLineIsKeywordLine ==
  (pc = "single" /\ all_detected) =>
    LET at == stmt_positions(parts[1], 1)
        found == Found(Result)
        src == code_of(parts[1])
    IN  \A i \in 1..Len(at) :
          /\ found[i].starting_line
               = Result.start_line + count_nl(src, seg_offset(parts[1], at[i]))
          /\ found[i].ending_line = found[i].starting_line

\* C3: a finding's suggestion is "Replace '<statement without its period>'
\* with '<target> <op> <value>'." with op += -= *= /= by kind, target left
\* and value right, as the statement in the source has them.
C3_Suggestion ==
  pc = "single" =>
    LET at == stmt_positions(parts[1], 1)
        found == Found(Result)
        wanted == [i \in 1..Len(at) |-> expected_suggestion(Segments[parts[1][at[i]]])]
    IN  /\ is_subseq([i \in 1..Len(found) |-> found[i].suggestion], wanted)
        /\ all_detected => \A i \in 1..Len(at) : found[i].suggestion = wanted[i]

C3_Witness ==
  /\ pc = "single"
  /\ parts[1] = <<2, 11, 3>>
  /\ Len(Found(Result)) = 2
  /\ Found(Result)[1].suggestion = expected_suggestion(Segments[2])
  /\ Found(Result)[2].suggestion = expected_suggestion(Segments[3])

\* C4: findings is None or a non-empty list, and it is None exactly when
\* the pattern matches nowhere in the code.
C4_AbsentIffNoMatch ==
  pc = "single" =>
    /\ Result.findings # Some(<<>>)
    /\ Result.findings = None <=> finditer(code_or_empty(Result)) = <<>>

\* C5: the batch answer is the scanned units that have findings, in input
\* order, none missing, none twice; the single answer is always the scanned
\* unit, with findings None when there are none.
C5_BatchFilter ==
  LET scanned(i) == LET r == scan_unit(heap, request[i]) IN r.heap[r.ref]
      has_stmt(i) == parts[i] # <<>> /\ Segments[parts[i][1]].class = "stmt"
      no_stmt(i) == parts[i] = <<>> \/ Segments[parts[i][1]].class \in {"ws", "compute", "noperiod"}
      keep(i) == Found(scanned(i)) # <<>>
      kept == SelectSeq([i \in 1..Len(request) |-> i], keep)
  IN  /\ pc = "array" =>
           /\ response.kind = "list"
           /\ Len(response.refs) = Len(kept)
           /\ \A k \in 1..Len(kept) : heap[response.refs[k]] = scanned(kept[k])
           /\ \A i \in 1..Len(request) :
                (has_stmt(i) => keep(i)) /\ (no_stmt(i) => ~keep(i))
           /\ \A k \in 1..Len(kept) : heap[response.refs[k]].start_line = 100 * kept[k]
      /\ pc = "single" =>
           /\ response.kind = "unit"
           /\ Result = scanned(1)
           /\ no_stmt(1) => Result.findings = None

C5_Witness ==
  /\ pc = "array"
  /\ Len(request) = 3
  /\ Len(response.refs) = 2
  /\ heap[response.refs[1]].start_line = 100
  /\ heap[response.refs[2]].start_line = 300

\* C6: scanning the result of a scan gives the same findings again, and
\* findings the input carried are not in the output.
C6_Idempotent ==
  pc = "single" =>
    /\ round >= 1 => Result.findings = heap[request[1]].findings
    /\ \A i \in 1..Len(Found(Result)) : Found(Result)[i].prog_name = Result.pgm_name
    /\ Len(Found(Result)) <= Len(finditer(code_or_empty(Result)))

C6_Witness ==
  /\ pc = "single"
  /\ round = 2
  /\ heap[1].findings = Some(StaleFindings)
  /\ Len(Found(Result)) = 2

\* C7: a scan leaves every object it was given as it was, and the unit it
\* returns differs from its argument in findings at most.
C7_InputNotMutated ==
  [][ /\ \A r \in DOMAIN heap : r \in DOMAIN heap' /\ heap'[r] = heap[r]
      /\ pc' = "single" =>
           heap'[response'.ref] = [heap[request[1]] EXCEPT !.findings = heap'[response'.ref].findings]
    ]_vars

C7_Witness ==
  /\ pc = "single"
  /\ heap[request[1]].findings = Some(StaleFindings)
  /\ Len(Found(Result)) = 1
  /\ response.ref # request[1]

\* C8: a finding's snippet is the whole physical line on which the
\* statement's keyword begins, without a newline, also when blank lines
\* precede the statement.
C8_SnippetIsKeywordLine ==
  (pc = "single" /\ all_detected) =>
    LET at == stmt_positions(parts[1], 1)
        found == Found(Result)
        src == code_of(parts[1])
    IN  \A i \in 1..Len(at) :
          /\ found[i].snippet
               = lines_of(src, <<>>)[count_nl(src, seg_offset(parts[1], at[i])) + 1]
          /\ \A k \in 1..Len(found[i].snippet) : found[i].snippet[k] # NL

\* C9: findings are in source order: the matched spans are disjoint and
\* increasing, the findings follow the order of the statements in the code,
\* and starting_line never decreases along the list.
C9_SourceOrder ==
  pc = "single" =>
    LET at == stmt_positions(parts[1], 1)
        found == Found(Result)
        ms == finditer(code_or_empty(Result))
        wanted == [i \in 1..Len(at) |-> expected_suggestion(Segments[parts[1][at[i]]])]
    IN  /\ \A i \in 1..Len(ms) : \A j \in 1..Len(ms) :
             i < j => ms[i].start < ms[i].end /\ ms[i].end <= ms[j].start
        /\ is_subseq([i \in 1..Len(found) |-> found[i].suggestion], wanted)
        /\ \A i \in 1..Len(found) : \A j \in 1..Len(found) :
             i < j => found[i].starting_line <= found[j].starting_line

C9_Witness ==
  /\ pc = "single"
  /\ parts[1] = <<5, 11, 1>>
  /\ Len(Found(Result)) = 2
  /\ Found(Result)[1].starting_line < Found(Result)[2].starting_line

\* C10: every match of the pattern yields exactly one finding, whose
\* issues_type is "Obsolete<K>Usage" and message "Obsolete '<K>' statement
\* detected." for the upper-case keyword K of the matched statement, with
\* severity "error".
C10_OneFindingPerMatch ==
  pc = "single" =>
    LET found == Found(Result)
        ms == finditer(code_or_empty(Result))
        \* the keyword of the alternative the i-th match took
        K(i) == Alternatives[CHOOSE k \in 1..4 : ms[i].groups[Alternatives[k].val] # None].kw
    IN  /\ Len(found) = Len(ms)
        /\ \A i \in 1..Len(ms) :
             /\ found[i].severity = "error"
             /\ found[i].issues_type = TXT_Obsolete \o K(i) \o TXT_Usage
             /\ found[i].message = TXT_ObsoleteQ \o K(i) \o TXT_detected

====
